---- MODULE Spec2Model ----
(***************************************************************************)
(* Task-tracking backend (backend/src/main.rs): the store (categorias,     *)
(* tareas) and the request handlers crear_tarea, actualizar_tarea,         *)
(* borrar_tarea and listar_tareas.  A handler is a sequence of store       *)
(* statements; every statement executes atomically at the store, and       *)
(* handlers of different requests interleave between statements (each      *)
(* .await is a suspension point).  An action is one statement together     *)
(* with the handler's local code that follows it up to the next statement  *)
(* or the response.                                                        *)
(***************************************************************************)
EXTENDS Integers, Sequences, FiniteSets, TLC

\* ---------------------------------------------------------------- bounds
\* number of requests that can be in flight at the same time
NumReq == 2
\* largest task id the store hands out
MaxId == 2

\* ------------------------------------------------------ program constants
BAD_REQUEST == 400
NO_CONTENT == 204
OK == 200
\* the id the spec uses for "no such category"
CategoriaDesconocida == 9999

\* ------------------------------------------------------------------ text
\* A String is a sequence of characters; " " is whitespace.
Espacio == " "

RECURSIVE TrimStart(_)
TrimStart(s) ==
    IF s # <<>> /\ Head(s) = Espacio THEN TrimStart(Tail(s)) ELSE s

RECURSIVE TrimEnd(_)
TrimEnd(s) ==
    IF s # <<>> /\ s[Len(s)] = Espacio THEN TrimEnd(SubSeq(s, 1, Len(s) - 1)) ELSE s

\* str::trim
Trim(s) == TrimEnd(TrimStart(s))

\* s.trim().is_empty()
EsVacio(s) == Trim(s) = <<>>

\* Option<T>: None is {}, Some(v) is {v}
None == {}
Some(v) == {v}
IsSome(o) == o # {}
Unwrap(o) == CHOOSE v \in o : TRUE

\* ---------------------------------------------------------------- inputs
Requests == 1..NumReq
TareaIds == 1..MaxId

\* NuevaTarea: the bodies of POST /tareas, one request at a time
TitulosCrear == {<<"a">>, <<" ">>, <<>>}
DescripcionesCrear == {<<"b">>, <<" ">>, <<>>}
NuevaTarea == [titulo : TitulosCrear, descripcion : DescripcionesCrear,
               categoria_id : {1, CategoriaDesconocida}]

\* ActualizarTarea: the bodies of PATCH /tareas/:id, every field an Option
TitulosActualizar == {<<" ", "c">>, <<" ">>}
DescripcionesActualizar == {<<"d", " ">>, <<" ", " ">>, <<>>}
ActualizarTarea ==
    [titulo : {None} \cup {Some(t) : t \in TitulosActualizar},
     descripcion : {None} \cup {Some(t) : t \in DescripcionesActualizar},
     categoria_id : {None} \cup {Some(c) : c \in {2, CategoriaDesconocida}},
     completada : {None} \cup {Some(b) : b \in BOOLEAN}]

\* the bodies of the requests that run concurrently
NuevasConcurrentes ==
    {[titulo |-> <<"a">>, descripcion |-> <<"b">>, categoria_id |-> 1],
     [titulo |-> <<"a">>, descripcion |-> <<" ">>, categoria_id |-> 1],
     [titulo |-> <<" ">>, descripcion |-> <<"b">>, categoria_id |-> CategoriaDesconocida],
     [titulo |-> <<"a">>, descripcion |-> <<"b">>, categoria_id |-> CategoriaDesconocida]}

ActualizacionesConcurrentes ==
    {[titulo |-> Some(<<"c">>), descripcion |-> None, categoria_id |-> None,
      completada |-> Some(TRUE)],
     [titulo |-> Some(<<"d">>), descripcion |-> None, categoria_id |-> Some(2),
      completada |-> None],
     [titulo |-> None, descripcion |-> Some(<<" ">>), categoria_id |-> None,
      completada |-> Some(TRUE)],
     [titulo |-> Some(<<>>), descripcion |-> Some(<<"e">>), categoria_id |-> None,
      completada |-> None],
     [titulo |-> None, descripcion |-> None, categoria_id |-> Some(CategoriaDesconocida),
      completada |-> Some(TRUE)],
     [titulo |-> None, descripcion |-> None, categoria_id |-> None, completada |-> None]}

SinCuerpo == [titulo |-> None, descripcion |-> None, categoria_id |-> None,
              completada |-> None]

VARIABLES
    categorias,     \* table categorias: id -> nombre
    tareas,         \* table tareas: id -> [titulo, descripcion, categoria_id, completada]
    autoincrement,  \* whether tareas.id is declared AUTOINCREMENT (schema not in src/)
    seq,            \* sqlite_sequence of tareas, during bootstrap of categorias
                    \* (only used with AUTOINCREMENT)
    req,            \* the requests in flight: slot -> handler state
    enUso,          \* the slots whose handler holds a connection of the pool
    frontend        \* the browser: the task list of the App component, the list each
                    \* callback in flight captured, whether a response was not ok, the
                    \* number of actions issued

vars == <<categorias, tareas, autoincrement, seq, req, enUso, frontend>>

\* ------------------------------------------------------------- bootstrap
\* init_categorias on an empty table: the five default names, ids 1..5
CategoriasIniciales ==
    1 :> "Compras" @@ 2 :> "Trabajo" @@ 3 :> "Estudio" @@ 4 :> "Personal" @@ 5 :> "Otros"

\* the App component before any action: use_state(Vec::<Tarea>::new), no callback in
\* flight
SinFrontend == [tareas |-> <<>>, tareas_clone |-> <<>>, fallo |-> FALSE, emitidas |-> 0]

SinRespuesta == [status |-> 0, error |-> "", body |-> <<>>]

SinNueva == [titulo |-> <<>>, descripcion |-> <<>>, categoria_id |-> 0]

Libre ==
    [kind |-> "libre", pc |-> "libre", id |-> 0, nueva |-> SinNueva, act |-> SinCuerpo,
     resp |-> SinRespuesta]

Init ==
    /\ categorias = CategoriasIniciales
    /\ tareas = <<>>
    /\ autoincrement \in BOOLEAN
    /\ seq = 0
    /\ req = [r \in Requests |-> Libre]
    /\ enUso = {}
    /\ frontend = SinFrontend

\* ------------------------------------------------------------- responses
\* an ErrorResponse answering 404 for every message
ErrorResponseNoEncontrado(msg) == [status |-> 404, error |-> msg, body |-> <<>>]

\* impl IntoResponse for ErrorResponse: always 400
ErrorResponse(msg) == [status |-> BAD_REQUEST, error |-> msg, body |-> <<>>]
\* Ok(Json(tarea))
JsonTarea(t) == [status |-> OK, error |-> "", body |-> <<t>>]
\* Ok(Json(tareas))
JsonTareas(ts) == [status |-> OK, error |-> "", body |-> ts]
\* Ok(StatusCode::NO_CONTENT)
SinContenido == [status |-> NO_CONTENT, error |-> "", body |-> <<>>]

ErrTituloVacio == "El titulo no puede estar vacio"
ErrDescripcionVacia == "La descripcion no puede estar vacia"
ErrCategoriaNoExiste == "La categoria no existe"
ErrTareaNoExiste == "La tarea no existe"
ErrAlActualizar == "Error al actualizar tarea"
ErrAlObtener == "Error al obtener tarea"

\* the error taxonomy of the specification
ValidationError == {ErrTituloVacio, ErrDescripcionVacia}
ReferenceError == {ErrCategoriaNoExiste}
NotFoundError == {ErrTareaNoExiste}
PersistenceError == {ErrAlActualizar, ErrAlObtener}

\* the handler of slot r returns resp
Responder(r, resp) == [req EXCEPT ![r].pc = "fin", ![r].resp = resp]
\* the handler of slot r goes on to its next statement
Seguir(r, pc) == [req EXCEPT ![r].pc = pc]

\* ---------------------------------------------------------- entity mapper
\* impl From<TareaQuery> for Tarea, on the row of the INNER JOIN
Tarea(id, fila, cs) ==
    [id |-> id, titulo |-> fila.titulo, descripcion |-> fila.descripcion,
     completada |-> fila.completada,
     categoria |-> [id |-> fila.categoria_id, nombre |-> cs[fila.categoria_id]]]

\* ids of the rows of tareas INNER JOIN categorias
Unidas(ts, cs) == {i \in DOMAIN ts : ts[i].categoria_id \in DOMAIN cs}

\* obtener_tarea_completa: fetch_one fails when the join has no row for id
ObtenerTareaCompleta(ts, cs, id) ==
    IF id \in Unidas(ts, cs) THEN JsonTarea(Tarea(id, ts[id], cs))
    ELSE ErrorResponse(ErrAlObtener)

\* -------------------------------------------------------------- the store
Max(S) == CHOOSE m \in S : \A x \in S : x <= m

\* the largest id the store has handed out and still remembers
UltimoId ==
    IF autoincrement THEN seq
    ELSE IF DOMAIN tareas = {} THEN 0 ELSE Max(DOMAIN tareas)

\* INSERT ... RETURNING id: the id the store assigns to a new row
NuevoId == UltimoId + 1

\* SELECT 1 FROM categorias WHERE id = ?  (fetch_optional)
CategoriaExiste(cs, id) == IF id \in DOMAIN cs THEN Some(1) ELSE None

\* SELECT 1 FROM tareas WHERE id = ?  (fetch_optional)
TareaExiste(ts, id) == IF id \in DOMAIN ts THEN Some(1) ELSE None

\* the INSERT with titulo and descripcion bound in the wrong order
InsertarCamposCambiados(ts, id, nueva) ==
    (id :> [titulo |-> nueva.descripcion, descripcion |-> nueva.titulo,
            categoria_id |-> nueva.categoria_id, completada |-> FALSE]) @@ ts

\* the INSERT with completada bound to true
InsertarCompletada(ts, id, nueva) ==
    (id :> [titulo |-> nueva.titulo, descripcion |-> nueva.descripcion,
            categoria_id |-> nueva.categoria_id, completada |-> TRUE]) @@ ts

\* INSERT INTO tareas (titulo, descripcion, categoria_id, completada) VALUES (?, ?, ?, false)
Insertar(ts, id, nueva) ==
    (id :> [titulo |-> nueva.titulo, descripcion |-> nueva.descripcion,
            categoria_id |-> nueva.categoria_id, completada |-> FALSE]) @@ ts

\* the DELETE without its WHERE clause
BorrarTodo(ts, id) == IF id \in DOMAIN ts THEN <<>> ELSE ts

\* DELETE FROM tareas WHERE id = ?
Borrar(ts, id) == [i \in DOMAIN ts \ {id} |-> ts[i]]

\* rows_affected() of the DELETE
FilasAfectadas(ts, id) == IF id \in DOMAIN ts THEN 1 ELSE 0

\* the ORDER BY with the id ascending
AntesAscendente(ts, a, b) ==
    \/ ~ts[a].completada /\ ts[b].completada
    \/ ts[a].completada = ts[b].completada /\ a < b

\* ORDER BY t.completada, t.id DESC: a comes before b
Antes(ts, a, b) ==
    \/ ~ts[a].completada /\ ts[b].completada
    \/ ts[a].completada = ts[b].completada /\ a > b

RECURSIVE Ordenar(_, _)
Ordenar(ts, S) ==
    IF S = {} THEN <<>>
    ELSE LET p == CHOOSE a \in S : \A b \in S \ {a} : Antes(ts, a, b)
         IN  <<p>> \o Ordenar(ts, S \ {p})

\* the SELECT of listar_tareas mapped through Tarea::from
ListarTareas(ts, cs) ==
    LET ids == Ordenar(ts, Unidas(ts, cs))
    IN  [k \in 1..Len(ids) |-> Tarea(ids[k], ts[ids[k]], cs)]

\* the place of each default name under ORDER BY nombre
OrdenNombre ==
    "Compras" :> 1 @@ "Estudio" :> 2 @@ "Otros" :> 3 @@ "Personal" :> 4 @@ "Trabajo" :> 5

RECURSIVE OrdenarCategorias(_, _)
OrdenarCategorias(cs, S) ==
    IF S = {} THEN <<>>
    ELSE LET p == CHOOSE a \in S :
                      \A b \in S \ {a} : OrdenNombre[cs[a]] < OrdenNombre[cs[b]]
         IN  <<p>> \o OrdenarCategorias(cs, S \ {p})

\* SELECT id, nombre FROM categorias ORDER BY nombre
ListarCategorias(cs) ==
    LET ids == OrdenarCategorias(cs, DOMAIN cs)
    IN  [k \in 1..Len(ids) |-> [id |-> ids[k], nombre |-> cs[ids[k]]]]

\* ------------------------------------------------- dynamic update builder
\* query.push(text) and query.push(text).push_bind(v): one token of the SET list
Push(text) == [text |-> text, bind |-> None]
PushBind(text, v) == [text |-> text, bind |-> Some(v)]

\* a block of the builder pushing ", " without testing first
ClausulaSeparadorSiempre(q, text, campo, ponePrimero) ==
    IF IsSome(campo)
    THEN [tokens |-> q.tokens \o <<Push(", ")>> \o <<PushBind(text, Unwrap(campo))>>,
          first |-> IF ponePrimero THEN FALSE ELSE q.first]
    ELSE q

\* one "if let Some(..)" block of the builder: q is [tokens, first]
Clausula(q, text, campo, ponePrimero) ==
    IF IsSome(campo)
    THEN [tokens |-> q.tokens \o (IF ~q.first THEN <<Push(", ")>> ELSE <<>>)
                              \o <<PushBind(text, Unwrap(campo))>>,
          first |-> IF ponePrimero THEN FALSE ELSE q.first]
    ELSE q

\* the builder with completada written on every update (false when omitted)
ConstruirSetCompletadaSiempre(act) ==
    LET q0 == [tokens |-> <<>>, first |-> TRUE]
        q1 == Clausula(q0, "titulo = ", act.titulo, TRUE)
        q2 == Clausula(q1, "descripcion = ", act.descripcion, TRUE)
        q3 == Clausula(q2, "categoria_id = ", act.categoria_id, TRUE)
        q4 == Clausula(q3, "completada = ",
                       IF IsSome(act.completada) THEN act.completada ELSE Some(FALSE), FALSE)
    IN  q4.tokens

\* the token list pushed between "UPDATE tareas SET " and " WHERE id = "
ConstruirSet(act) ==
    LET q0 == [tokens |-> <<>>, first |-> TRUE]
        q1 == Clausula(q0, "titulo = ", act.titulo, TRUE)
        q2 == Clausula(q1, "descripcion = ", act.descripcion, TRUE)
        q3 == Clausula(q2, "categoria_id = ", act.categoria_id, TRUE)
        q4 == Clausula(q3, "completada = ", act.completada, FALSE)
    IN  q4.tokens

\* the builder's validation with is_empty() on the untrimmed text
ValidarSinRecortar(act) ==
    IF IsSome(act.titulo) /\ Unwrap(act.titulo) = <<>> THEN Some(ErrTituloVacio)
    ELSE IF IsSome(act.descripcion) /\ Unwrap(act.descripcion) = <<>>
         THEN Some(ErrDescripcionVacia)
    ELSE None

\* the validation the builder does on the way: the error of the first blank text
ValidarActualizacion(act) ==
    IF IsSome(act.titulo) /\ EsVacio(Unwrap(act.titulo)) THEN Some(ErrTituloVacio)
    ELSE IF IsSome(act.descripcion) /\ EsVacio(Unwrap(act.descripcion))
         THEN Some(ErrDescripcionVacia)
    ELSE None

\* the store parses the SET list: assignment (", " assignment)*
SetValido(tokens) ==
    /\ Len(tokens) % 2 = 1
    /\ \A i \in 1..Len(tokens) :
          IF i % 2 = 1 THEN IsSome(tokens[i].bind)
          ELSE tokens[i].text = ", " /\ tokens[i].bind = None

\* the value the SET list assigns to a column, else the row's old value
Asignado(tokens, text, viejo) ==
    IF \E i \in 1..Len(tokens) : tokens[i].text = text
    THEN Unwrap(tokens[CHOOSE i \in 1..Len(tokens) : tokens[i].text = text].bind)
    ELSE viejo

\* an UPDATE that inserts the row when no row has the id
ActualizarOInsertar(ts, tokens, id) ==
    LET vacia == [titulo |-> <<>>, descripcion |-> <<>>, categoria_id |-> 1,
                  completada |-> FALSE]
        fila == IF id \in DOMAIN ts THEN ts[id] ELSE vacia
    IN  (id :> [titulo |-> Asignado(tokens, "titulo = ", fila.titulo),
                descripcion |-> Asignado(tokens, "descripcion = ", fila.descripcion),
                categoria_id |-> Asignado(tokens, "categoria_id = ", fila.categoria_id),
                completada |-> Asignado(tokens, "completada = ", fila.completada)]) @@ ts

\* UPDATE tareas SET <tokens> WHERE id = ?  on a well-formed statement
Actualizar(ts, tokens, id) ==
    IF id \in DOMAIN ts
    THEN [ts EXCEPT ![id] =
            [titulo |-> Asignado(tokens, "titulo = ", @.titulo),
             descripcion |-> Asignado(tokens, "descripcion = ", @.descripcion),
             categoria_id |-> Asignado(tokens, "categoria_id = ", @.categoria_id),
             completada |-> Asignado(tokens, "completada = ", @.completada)]]
    ELSE ts

\* -------------------------------------------------------- connection pool
\* SqlitePoolOptions::new().max_connections(5)
MaxConnections == 5

\* the positions of a handler at which it is about to execute a statement on the pool
Sentencias ==
    {"crear_select_categoria", "crear_insert", "crear_obtener", "act_select_tarea",
     "act_select_categoria", "act_update", "act_obtener", "borrar_delete", "listar_select",
     "categorias_select", "init_insert"}

\* the statement of slot r runs on a connection taken from the pool
Conectado(r) == r \in enUso

\* a connection that is never given back
LiberarNunca(r) == enUso' = enUso

\* the statement has completed: its connection goes back to the pool
Liberar(r) == enUso' = enUso \ {r}

\* a pool that hands out a connection whatever the number in use
AdquirirSinLimite(r) ==
    /\ req[r].pc \in Sentencias
    /\ r \notin enUso
    /\ enUso' = enUso \cup {r}
    /\ UNCHANGED <<frontend, categorias, tareas, autoincrement, seq, req>>

\* .execute(&state.db) / .fetch_*(&state.db): the statement takes a free connection, or
\* waits while all of them are in use
Adquirir(r) ==
    /\ req[r].pc \in Sentencias
    /\ r \notin enUso
    /\ Cardinality(enUso) < MaxConnections
    /\ enUso' = enUso \cup {r}
    /\ UNCHANGED <<frontend, categorias, tareas, autoincrement, seq, req>>

\* ------------------------------------------------------- listar_categorias
\* GET /categorias arrives
RecibirListarCategorias(r) ==
    /\ req[r].pc = "libre"
    /\ req' = [req EXCEPT ![r] = [Libre EXCEPT !.kind = "categorias",
                                                !.pc = "categorias_select"]]
    /\ UNCHANGED <<frontend, categorias, tareas, autoincrement, seq, enUso>>

\* the SELECT of listar_categorias and the response
ListarCategoriasSelect(r) ==
    /\ req[r].pc = "categorias_select"
    /\ Conectado(r)
    /\ req' = Responder(r, JsonTareas(ListarCategorias(categorias)))
    /\ UNCHANGED <<frontend, categorias, tareas, autoincrement, seq>>
    /\ Liberar(r)

\* crear_tarea inserting the category its body names when there is none
CrearSelectCategoriaCreando(r) ==
    /\ req[r].pc = "crear_select_categoria"
    /\ Conectado(r)
    /\ categorias' = IF req[r].nueva.categoria_id \in DOMAIN categorias THEN categorias
                     ELSE (req[r].nueva.categoria_id :> "Otros") @@ categorias
    /\ req' = Seguir(r, "crear_insert")
    /\ UNCHANGED <<frontend, tareas, autoincrement, seq>>
    /\ Liberar(r)

\* ------------------------------------------------------------ crear_tarea
\* the create request will reach its INSERT
Insertara(nueva) ==
    /\ ~EsVacio(nueva.titulo)
    /\ ~EsVacio(nueva.descripcion)
    /\ nueva.categoria_id \in DOMAIN categorias

\* creates in flight that will still insert a row
PorInsertar ==
    Cardinality({q \in DOMAIN req :
                    /\ req[q].pc \in {"crear_select_categoria", "crear_insert"}
                    /\ Insertara(req[q].nueva)})

\* the store hands out ids up to MaxId only
HayIdLibre(nueva) == Insertara(nueva) => UltimoId + PorInsertar < MaxId

\* crear_tarea validating the title only
RecibirCrearSinValidarDescripcion(r, nueva) ==
    /\ req[r].pc = "libre"
    /\ HayIdLibre(nueva)
    /\ LET p == [Libre EXCEPT !.kind = "crear", !.nueva = nueva]
       IN  req' = [req EXCEPT ![r] =
             IF EsVacio(nueva.titulo)
             THEN [p EXCEPT !.pc = "fin", !.resp = ErrorResponse(ErrTituloVacio)]
             ELSE [p EXCEPT !.pc = "crear_select_categoria"]]
    /\ UNCHANGED <<frontend, categorias, tareas, autoincrement, seq, enUso>>

\* POST /tareas arrives: the validation of titulo and descripcion, before any statement
RecibirCrear(r, nueva) ==
    /\ req[r].pc = "libre"
    /\ HayIdLibre(nueva)
    /\ LET p == [Libre EXCEPT !.kind = "crear", !.nueva = nueva]
       IN  req' = [req EXCEPT ![r] =
             IF EsVacio(nueva.titulo)
             THEN [p EXCEPT !.pc = "fin", !.resp = ErrorResponse(ErrTituloVacio)]
             ELSE IF EsVacio(nueva.descripcion)
             THEN [p EXCEPT !.pc = "fin", !.resp = ErrorResponse(ErrDescripcionVacia)]
             ELSE [p EXCEPT !.pc = "crear_select_categoria"]]
    /\ UNCHANGED <<frontend, categorias, tareas, autoincrement, seq, enUso>>

\* crear_tarea ignoring the result of the category check
CrearSelectCategoriaSinComprobar(r) ==
    /\ req[r].pc = "crear_select_categoria"
    /\ Conectado(r)
    /\ req' = Seguir(r, "crear_insert")
    /\ UNCHANGED <<frontend, categorias, tareas, autoincrement, seq>>
    /\ Liberar(r)

\* SELECT 1 FROM categorias WHERE id = ?, then the is_none() test
CrearSelectCategoria(r) ==
    /\ req[r].pc = "crear_select_categoria"
    /\ Conectado(r)
    /\ LET categoria_existe == CategoriaExiste(categorias, req[r].nueva.categoria_id)
       IN  req' = IF categoria_existe = None
                  THEN Responder(r, ErrorResponse(ErrCategoriaNoExiste))
                  ELSE Seguir(r, "crear_insert")
    /\ UNCHANGED <<frontend, categorias, tareas, autoincrement, seq>>
    /\ Liberar(r)

\* INSERT INTO tareas ... RETURNING id
CrearInsert(r) ==
    /\ req[r].pc = "crear_insert"
    /\ Conectado(r)
    /\ LET id == NuevoId
       IN  /\ tareas' = Insertar(tareas, id, req[r].nueva)
           /\ seq' = IF autoincrement THEN id ELSE seq
           /\ req' = [req EXCEPT ![r].pc = "crear_obtener", ![r].id = id]
    /\ UNCHANGED <<frontend, categorias, autoincrement>>
    /\ Liberar(r)

\* obtener_tarea_completa(id) and the response
CrearObtener(r) ==
    /\ req[r].pc = "crear_obtener"
    /\ Conectado(r)
    /\ req' = Responder(r, ObtenerTareaCompleta(tareas, categorias, req[r].id))
    /\ UNCHANGED <<frontend, categorias, tareas, autoincrement, seq>>
    /\ Liberar(r)

\* ------------------------------------------------------- actualizar_tarea
\* PATCH /tareas/:id arrives
RecibirActualizar(r, id, act) ==
    /\ req[r].pc = "libre"
    /\ req' = [req EXCEPT ![r] =
                 [Libre EXCEPT !.kind = "actualizar", !.id = id, !.act = act,
                               !.pc = "act_select_tarea"]]
    /\ UNCHANGED <<frontend, categorias, tareas, autoincrement, seq, enUso>>

\* the builder block: validation of the supplied texts, then the UPDATE is issued
Construir(r) ==
    LET error == ValidarActualizacion(req[r].act)
    IN  IF IsSome(error) THEN Responder(r, ErrorResponse(Unwrap(error)))
        ELSE Seguir(r, "act_update")

\* actualizar_tarea validating the texts before the category check
ActSelectTareaValidaPrimero(r) ==
    /\ req[r].pc = "act_select_tarea"
    /\ Conectado(r)
    /\ LET tarea_existe == TareaExiste(tareas, req[r].id)
           error == ValidarActualizacion(req[r].act)
       IN  req' = IF tarea_existe = None
                  THEN Responder(r, ErrorResponse(ErrTareaNoExiste))
                  ELSE IF IsSome(error)
                  THEN Responder(r, ErrorResponse(Unwrap(error)))
                  ELSE IF IsSome(req[r].act.categoria_id)
                  THEN Seguir(r, "act_select_categoria")
                  ELSE Seguir(r, "act_update")
    /\ UNCHANGED <<frontend, categorias, tareas, autoincrement, seq>>
    /\ Liberar(r)

\* SELECT 1 FROM tareas WHERE id = ?, then the local code up to the next statement
ActSelectTarea(r) ==
    /\ req[r].pc = "act_select_tarea"
    /\ Conectado(r)
    /\ LET tarea_existe == TareaExiste(tareas, req[r].id)
       IN  req' = IF tarea_existe = None
                  THEN Responder(r, ErrorResponse(ErrTareaNoExiste))
                  ELSE IF IsSome(req[r].act.categoria_id)
                  THEN Seguir(r, "act_select_categoria")
                  ELSE Construir(r)
    /\ UNCHANGED <<frontend, categorias, tareas, autoincrement, seq>>
    /\ Liberar(r)

\* actualizar_tarea ignoring the result of the category check
ActSelectCategoriaSinComprobar(r) ==
    /\ req[r].pc = "act_select_categoria"
    /\ Conectado(r)
    /\ req' = Construir(r)
    /\ UNCHANGED <<frontend, categorias, tareas, autoincrement, seq>>
    /\ Liberar(r)

\* actualizar_tarea writing the other supplied fields although the category is unknown
ActSelectCategoriaEscribiendo(r) ==
    /\ req[r].pc = "act_select_categoria"
    /\ Conectado(r)
    /\ LET categoria_existe == CategoriaExiste(categorias, Unwrap(req[r].act.categoria_id))
           resto == [req[r].act EXCEPT !.categoria_id = None]
       IN  /\ req' = IF categoria_existe = None
                     THEN Responder(r, ErrorResponse(ErrCategoriaNoExiste))
                     ELSE Construir(r)
           /\ tareas' = IF /\ categoria_existe = None
                           /\ ValidarActualizacion(resto) = None
                           /\ SetValido(ConstruirSet(resto))
                        THEN Actualizar(tareas, ConstruirSet(resto), req[r].id)
                        ELSE tareas
    /\ UNCHANGED <<frontend, categorias, autoincrement, seq>>
    /\ Liberar(r)

\* SELECT 1 FROM categorias WHERE id = ?, then the local code up to the next statement
ActSelectCategoria(r) ==
    /\ req[r].pc = "act_select_categoria"
    /\ Conectado(r)
    /\ LET categoria_existe == CategoriaExiste(categorias, Unwrap(req[r].act.categoria_id))
       IN  req' = IF categoria_existe = None
                  THEN Responder(r, ErrorResponse(ErrCategoriaNoExiste))
                  ELSE Construir(r)
    /\ UNCHANGED <<frontend, categorias, tareas, autoincrement, seq>>
    /\ Liberar(r)

\* query.build().execute(): the store rejects a malformed statement
ActUpdate(r) ==
    /\ req[r].pc = "act_update"
    /\ Conectado(r)
    /\ LET tokens == ConstruirSet(req[r].act)
       IN  IF SetValido(tokens)
           THEN /\ tareas' = Actualizar(tareas, tokens, req[r].id)
                /\ req' = Seguir(r, "act_obtener")
           ELSE /\ tareas' = tareas
                /\ req' = Responder(r, ErrorResponse(ErrAlActualizar))
    /\ UNCHANGED <<frontend, categorias, autoincrement, seq>>
    /\ Liberar(r)

\* obtener_tarea_completa(id) and the response
ActObtener(r) ==
    /\ req[r].pc = "act_obtener"
    /\ Conectado(r)
    /\ req' = Responder(r, ObtenerTareaCompleta(tareas, categorias, req[r].id))
    /\ UNCHANGED <<frontend, categorias, tareas, autoincrement, seq>>
    /\ Liberar(r)

\* ----------------------------------------------------------- borrar_tarea
\* DELETE /tareas/:id arrives
RecibirBorrar(r, id) ==
    /\ req[r].pc = "libre"
    /\ req' = [req EXCEPT ![r] = [Libre EXCEPT !.kind = "borrar", !.id = id, !.pc = "borrar_delete"]]
    /\ UNCHANGED <<frontend, categorias, tareas, autoincrement, seq, enUso>>

\* borrar_tarea answering 204 whatever rows_affected() says
BorrarDeleteSiempre204(r) ==
    /\ req[r].pc = "borrar_delete"
    /\ Conectado(r)
    /\ tareas' = Borrar(tareas, req[r].id)
    /\ req' = Responder(r, SinContenido)
    /\ UNCHANGED <<frontend, categorias, autoincrement, seq>>
    /\ Liberar(r)

\* DELETE FROM tareas WHERE id = ?, then the rows_affected() test
BorrarDelete(r) ==
    /\ req[r].pc = "borrar_delete"
    /\ Conectado(r)
    /\ tareas' = Borrar(tareas, req[r].id)
    /\ req' = IF FilasAfectadas(tareas, req[r].id) > 0
              THEN Responder(r, SinContenido)
              ELSE Responder(r, ErrorResponse(ErrTareaNoExiste))
    /\ UNCHANGED <<frontend, categorias, autoincrement, seq>>
    /\ Liberar(r)

\* ---------------------------------------------------------- listar_tareas
\* GET /tareas arrives
RecibirListar(r) ==
    /\ req[r].pc = "libre"
    /\ req' = [req EXCEPT ![r] = [Libre EXCEPT !.kind = "listar", !.pc = "listar_select"]]
    /\ UNCHANGED <<frontend, categorias, tareas, autoincrement, seq, enUso>>

\* the SELECT of listar_tareas and the response
ListarSelect(r) ==
    /\ req[r].pc = "listar_select"
    /\ Conectado(r)
    /\ req' = Responder(r, JsonTareas(ListarTareas(tareas, categorias)))
    /\ UNCHANGED <<frontend, categorias, tareas, autoincrement, seq>>
    /\ Liberar(r)

\* the response has been sent: the slot takes the next request
Fin(r) ==
    /\ req[r].pc = "fin"
    /\ req' = [req EXCEPT ![r] = Libre]
    /\ UNCHANGED <<frontend, categorias, tareas, autoincrement, seq, enUso>>

\* one statement of the handler running in slot r
Ejecutar(r) ==
    \/ Adquirir(r)
    \/ CrearSelectCategoria(r)
    \/ CrearInsert(r)
    \/ CrearObtener(r)
    \/ ActSelectTarea(r)
    \/ ActSelectCategoria(r)
    \/ ActUpdate(r)
    \/ ActObtener(r)
    \/ BorrarDelete(r)
    \/ ListarSelect(r)
    \/ ListarCategoriasSelect(r)
    \/ Fin(r)

\* Requests arrive one at a time, with every body of NuevaTarea and ActualizarTarea.
Next ==
    \E r \in {1} :
        \/ \E nueva \in NuevaTarea : RecibirCrear(r, nueva)
        \/ \E id \in TareaIds, act \in ActualizarTarea : RecibirActualizar(r, id, act)
        \/ \E id \in TareaIds : RecibirBorrar(r, id)
        \/ RecibirListar(r)
        \/ RecibirListarCategorias(r)
        \/ Ejecutar(r)

Spec == Init /\ [][Next]_vars

\* Up to NumReq handlers run at the same time and interleave between statements.
NextConc ==
    \E r \in Requests :
        \/ \E nueva \in NuevasConcurrentes : RecibirCrear(r, nueva)
        \/ \E id \in TareaIds, act \in ActualizacionesConcurrentes :
              RecibirActualizar(r, id, act)
        \/ \E id \in TareaIds : RecibirBorrar(r, id)
        \/ RecibirListar(r)
        \/ RecibirListarCategorias(r)
        \/ Ejecutar(r)

SpecConc == Init /\ [][NextConc]_vars

\* ------------------------------------------------- listar_tareas alone
\* largest task id of the tables listar_tareas is run on
MaxLista == 3

\* the rows of the tables listar_tareas is run on
FilasListables ==
    [titulo : {<<"a">>}, descripcion : {<<"b">>}, categoria_id : {1, 2},
     completada : BOOLEAN]

\* every table of valid tasks with ids up to MaxLista
TablasListables == UNION {[S -> FilasListables] : S \in SUBSET (1..MaxLista)}

InitLista ==
    /\ categorias = CategoriasIniciales
    /\ tareas \in TablasListables
    /\ autoincrement \in BOOLEAN
    /\ seq = MaxLista
    /\ req = [r \in Requests |-> Libre]
    /\ enUso = {}
    /\ frontend = SinFrontend

\* GET /tareas, one request at a time, on every table
NextLista ==
    \E r \in {1} :
        \/ RecibirListar(r)
        \/ Adquirir(r)
        \/ ListarSelect(r)
        \/ Fin(r)

SpecLista == InitLista /\ [][NextLista]_vars

\* ------------------------------------------------------- init_categorias
\* let categorias = vec![...]
NombresIniciales == <<"Compras", "Trabajo", "Estudio", "Personal", "Otros">>

\* categorias.nombre is UNIQUE: a row with this name is already there
NombrePresente(cs, nombre) == \E i \in DOMAIN cs : cs[i] = nombre

\* the id the store assigns to a new row of categorias
NuevoIdCategoria(cs) ==
    LET mayor == IF DOMAIN cs = {} THEN 0 ELSE Max(DOMAIN cs)
    IN  IF autoincrement /\ seq > mayor THEN seq + 1 ELSE mayor + 1

\* a plain INSERT on a column that is not UNIQUE
InsertarSinIgnorar(cs, nombre) == (NuevoIdCategoria(cs) :> nombre) @@ cs

\* INSERT OR IGNORE INTO categorias (nombre) VALUES (?)
InsertarOIgnorar(cs, nombre) ==
    IF NombrePresente(cs, nombre) THEN cs ELSE (NuevoIdCategoria(cs) :> nombre) @@ cs

\* main calls init_categorias(&pool)
LlamarInitCategorias(r) ==
    /\ req[r].pc = "libre"
    /\ req' = [req EXCEPT ![r] = [Libre EXCEPT !.kind = "init", !.id = 1,
                                                !.pc = "init_insert"]]
    /\ UNCHANGED <<frontend, categorias, tareas, autoincrement, seq, enUso>>

\* one turn of the for loop: the INSERT OR IGNORE of the name at position id
InitInsert(r) ==
    /\ req[r].pc = "init_insert"
    /\ Conectado(r)
    /\ categorias' = InsertarOIgnorar(categorias, NombresIniciales[req[r].id])
    /\ seq' = IF autoincrement /\ categorias' # categorias
              THEN Max(DOMAIN categorias') ELSE seq
    /\ req' = IF req[r].id = Len(NombresIniciales)
              THEN [req EXCEPT ![r].pc = "fin"]
              ELSE [req EXCEPT ![r].id = @ + 1]
    /\ UNCHANGED <<frontend, tareas, autoincrement>>
    /\ Liberar(r)

\* the category table at process start: empty, seeded by an earlier start, or seeded
\* and with rows deleted since
InitBootstrap ==
    /\ categorias \in {[i \in S |-> CategoriasIniciales[i]] :
                          S \in SUBSET DOMAIN CategoriasIniciales}
    /\ tareas = <<>>
    /\ autoincrement \in BOOLEAN
    /\ seq \in {0, Len(NombresIniciales)}
    /\ autoincrement => \A i \in DOMAIN categorias : i <= seq
    /\ req = [r \in Requests |-> Libre]
    /\ enUso = {}
    /\ frontend = SinFrontend

\* the process starts any number of times; no handler runs before init_categorias returns
NextBootstrap ==
    \E r \in {1} :
        \/ LlamarInitCategorias(r)
        \/ Adquirir(r)
        \/ InitInsert(r)
        \/ Fin(r)

SpecBootstrap == InitBootstrap /\ [][NextBootstrap]_vars

\* ------------------------------------------- more handlers than connections
\* number of handlers running at the same time, one more than the pool has connections
NumReqPool == 6

\* the bodies of the requests of slot 1
NuevasPool ==
    {[titulo |-> <<"a">>, descripcion |-> <<"b">>, categoria_id |-> 1],
     [titulo |-> <<"a">>, descripcion |-> <<"b">>, categoria_id |-> CategoriaDesconocida]}

ActualizacionesPool ==
    {[titulo |-> Some(<<"c">>), descripcion |-> None, categoria_id |-> Some(2),
      completada |-> Some(TRUE)],
     [titulo |-> None, descripcion |-> Some(<<" ">>), categoria_id |-> None,
      completada |-> Some(TRUE)],
     [titulo |-> None, descripcion |-> None, categoria_id |-> None, completada |-> None]}

InitPool ==
    /\ categorias = CategoriasIniciales
    /\ tareas = <<>>
    /\ autoincrement \in BOOLEAN
    /\ seq = 0
    /\ req = [r \in 1..NumReqPool |-> Libre]
    /\ enUso = {}
    /\ frontend = SinFrontend

\* Slot 1 runs every handler; the other slots run deletes of task 1 at the same time.
NextPool ==
    \/ \E r \in {1} :
          \/ \E nueva \in NuevasPool : RecibirCrear(r, nueva)
          \/ \E act \in ActualizacionesPool : RecibirActualizar(r, 1, act)
          \/ RecibirListar(r)
          \/ RecibirListarCategorias(r)
          \/ CrearSelectCategoria(r)
          \/ CrearInsert(r)
          \/ CrearObtener(r)
          \/ ActSelectTarea(r)
          \/ ActSelectCategoria(r)
          \/ ActUpdate(r)
          \/ ActObtener(r)
          \/ ListarSelect(r)
          \/ ListarCategoriasSelect(r)
    \/ \E r \in 1..NumReqPool :
          \/ RecibirBorrar(r, 1)
          \/ Adquirir(r)
          \/ BorrarDelete(r)
          \/ Fin(r)

SpecPool == InitPool /\ [][NextPool]_vars

\* the statement the handler of slot r is at: the store answers it
Sentencia(r) ==
    \/ CrearSelectCategoria(r)
    \/ CrearInsert(r)
    \/ CrearObtener(r)
    \/ ActSelectTarea(r)
    \/ ActSelectCategoria(r)
    \/ ActUpdate(r)
    \/ ActObtener(r)
    \/ BorrarDelete(r)
    \/ ListarSelect(r)
    \/ ListarCategoriasSelect(r)

\* The store answers every statement it is given, and the pool hands a free connection
\* to a handler that waits for one.
Justicia ==
    \A r \in 1..NumReqPool : WF_vars(Sentencia(r)) /\ WF_vars(Adquirir(r))

\* the id of a task that is never stored
TareaDesconocida == MaxId + 1

\* Five deletes have arrived at once on an empty store; slot 1 is free.
InitTermina ==
    /\ categorias = CategoriasIniciales
    /\ tareas = <<>>
    /\ autoincrement \in BOOLEAN
    /\ seq = 0
    /\ req = [r \in 1..NumReqPool |->
                IF r = 1 THEN Libre
                ELSE [Libre EXCEPT !.kind = "borrar", !.id = TareaDesconocida,
                                   !.pc = "borrar_delete"]]
    /\ enUso = {}
    /\ frontend = SinFrontend

\* Slot 1 runs the handlers of several statements, a create and then updates, one after
\* the other, while the five deletes compete with it for the connections.
NextTermina ==
    \/ \E r \in {1} :
          \/ /\ tareas = <<>>
             /\ RecibirCrear(r, [titulo |-> <<"a">>, descripcion |-> <<"b">>,
                                 categoria_id |-> 1])
          \/ RecibirActualizar(r, 1, [titulo |-> None, descripcion |-> None,
                                      categoria_id |-> Some(2), completada |-> Some(TRUE)])
          \/ CrearSelectCategoria(r)
          \/ CrearInsert(r)
          \/ CrearObtener(r)
          \/ ActSelectTarea(r)
          \/ ActSelectCategoria(r)
          \/ ActUpdate(r)
          \/ ActObtener(r)
          \/ Fin(r)
    \/ \E r \in 1..NumReqPool :
          \/ Adquirir(r)
          \/ BorrarDelete(r)

SpecTermina == InitTermina /\ [][NextTermina]_vars /\ Justicia

\* ------------------------------------------------------------- frontend
\* number of actions the user issues in one session
MaxAcciones == 4

\* what the user has typed in the form when pressing "Agregar"
TitulosFormulario == {<<"a">>, <<" ">>}
DescripcionesFormulario == {<<"b">>}

\* response.ok(): a status from 200 to 299
RespuestaOk(resp) == resp.status >= 200 /\ resp.status <= 299

\* nuevas_tareas.retain(|t| t.id != id)
Retener(lista, id) == SelectSeq(lista, LAMBDA t : t.id # id)

\* nuevas_tareas.iter().position(|t| t.id == id)
Posicion(lista, id) ==
    LET donde == {k \in 1..Len(lista) : lista[k].id = id}
    IN  IF donde = {} THEN None ELSE Some(CHOOSE k \in donde : \A j \in donde : k <= j)

\* the callback of slot r keeps the list of the render it was created in
Capturar(r) ==
    [frontend EXCEPT !.tareas_clone = (r :> frontend.tareas) @@ @, !.emitidas = @ + 1]

\* the callback of slot r has run to its end, leaving lista as the state of the component
Establecer(r, lista, ok) ==
    [tareas |-> lista,
     tareas_clone |-> [q \in DOMAIN frontend.tareas_clone \ {r} |-> frontend.tareas_clone[q]],
     fallo |-> frontend.fallo \/ ~ok,
     emitidas |-> frontend.emitidas]

\* on_agregar: the validation of the form, then POST /tareas is sent; the backend's own
\* validation of the same texts passes
OnAgregar(r, titulo, descripcion) ==
    LET nueva_tarea == [titulo |-> titulo, descripcion |-> descripcion,
                        categoria_id |-> 1]
    IN  /\ req[r].pc = "libre"
        /\ frontend.emitidas < MaxAcciones
        /\ HayIdLibre(nueva_tarea)
        /\ ~EsVacio(titulo)
        /\ ~EsVacio(descripcion)
        /\ req' = [req EXCEPT ![r] = [Libre EXCEPT !.kind = "crear", !.nueva = nueva_tarea,
                                                   !.pc = "crear_select_categoria"]]
        /\ frontend' = Capturar(r)
        /\ UNCHANGED <<categorias, tareas, autoincrement, seq, enUso>>

\* the response of POST /tareas arrives: the created task is pushed on the captured list
RespuestaAgregar(r) ==
    /\ req[r].pc = "fin"
    /\ req[r].kind = "crear"
    /\ LET response == req[r].resp
           tareas_clone == frontend.tareas_clone[r]
       IN  frontend' = IF RespuestaOk(response)
                       THEN Establecer(r, Append(tareas_clone, response.body[1]), TRUE)
                       ELSE Establecer(r, frontend.tareas, FALSE)
    /\ req' = [req EXCEPT ![r] = Libre]
    /\ UNCHANGED <<categorias, tareas, autoincrement, seq, enUso>>

\* on_borrar of a task of the rendered list: DELETE /tareas/id is sent
OnBorrar(r, id) ==
    /\ req[r].pc = "libre"
    /\ frontend.emitidas < MaxAcciones
    /\ \E k \in 1..Len(frontend.tareas) : frontend.tareas[k].id = id
    /\ req' = [req EXCEPT ![r] = [Libre EXCEPT !.kind = "borrar", !.id = id,
                                               !.pc = "borrar_delete"]]
    /\ frontend' = Capturar(r)
    /\ UNCHANGED <<categorias, tareas, autoincrement, seq, enUso>>

\* the response of DELETE arrives: the task is dropped from the captured list
RespuestaBorrar(r) ==
    /\ req[r].pc = "fin"
    /\ req[r].kind = "borrar"
    /\ LET response == req[r].resp
           tareas_clone == frontend.tareas_clone[r]
       IN  frontend' = IF RespuestaOk(response)
                       THEN Establecer(r, Retener(tareas_clone, req[r].id), TRUE)
                       ELSE Establecer(r, frontend.tareas, FALSE)
    /\ req' = [req EXCEPT ![r] = Libre]
    /\ UNCHANGED <<categorias, tareas, autoincrement, seq, enUso>>

\* on_toggle_completada of a task of the rendered list: PATCH /tareas/id is sent with
\* {"completada": !completada}
OnToggleCompletada(r, id) ==
    /\ req[r].pc = "libre"
    /\ frontend.emitidas < MaxAcciones
    /\ \E k \in 1..Len(frontend.tareas) :
          /\ frontend.tareas[k].id = id
          /\ req' = [req EXCEPT ![r] =
                       [Libre EXCEPT !.kind = "actualizar", !.id = id,
                                     !.act = [SinCuerpo EXCEPT !.completada =
                                                 Some(~frontend.tareas[k].completada)],
                                     !.pc = "act_select_tarea"]]
    /\ frontend' = Capturar(r)
    /\ UNCHANGED <<categorias, tareas, autoincrement, seq, enUso>>

\* the response of PATCH arrives: the updated task replaces the one of the captured list
RespuestaToggle(r) ==
    /\ req[r].pc = "fin"
    /\ req[r].kind = "actualizar"
    /\ LET response == req[r].resp
           tareas_clone == frontend.tareas_clone[r]
           index == Posicion(tareas_clone, req[r].id)
       IN  frontend' = IF ~RespuestaOk(response) THEN Establecer(r, frontend.tareas, FALSE)
                       ELSE IF IsSome(index)
                       THEN Establecer(r, [tareas_clone EXCEPT ![Unwrap(index)] =
                                              response.body[1]], TRUE)
                       ELSE Establecer(r, frontend.tareas, TRUE)
    /\ req' = [req EXCEPT ![r] = Libre]
    /\ UNCHANGED <<categorias, tareas, autoincrement, seq, enUso>>

\* One browser on an empty store: the user presses buttons while earlier requests are in
\* flight, the backend runs their handlers, the responses arrive in any order.
NextFrontend ==
    \E r \in Requests :
        \/ \E titulo \in TitulosFormulario, descripcion \in DescripcionesFormulario :
              OnAgregar(r, titulo, descripcion)
        \/ \E id \in TareaIds : OnBorrar(r, id)
        \/ \E id \in TareaIds : OnToggleCompletada(r, id)
        \/ Adquirir(r)
        \/ CrearSelectCategoria(r)
        \/ CrearInsert(r)
        \/ CrearObtener(r)
        \/ ActSelectTarea(r)
        \/ ActUpdate(r)
        \/ ActObtener(r)
        \/ BorrarDelete(r)
        \/ RespuestaAgregar(r)
        \/ RespuestaBorrar(r)
        \/ RespuestaToggle(r)

SpecFrontend == Init /\ [][NextFrontend]_vars

\* ================================================================ claims
\* a field of an update body: the supplied value, else the stored one
Campo(suministrado, almacenado) ==
    IF IsSome(suministrado) THEN Unwrap(suministrado) ELSE almacenado

\* the row a partial update is to leave behind
FilaEsperada(fila, act) ==
    [titulo |-> Campo(act.titulo, fila.titulo),
     descripcion |-> Campo(act.descripcion, fila.descripcion),
     categoria_id |-> Campo(act.categoria_id, fila.categoria_id),
     completada |-> Campo(act.completada, fila.completada)]

\* slot r holds a finished request of the given kind
Terminado(r, kind) == req[r].kind = kind /\ req[r].pc = "fin"

\* C1: a partial update of an existing task whose body supplies no field succeeds:
\* it answers 200 with the task as stored, not an error envelope.
C1_ActualizacionVaciaTieneExito ==
    \A r \in Requests :
        (Terminado(r, "actualizar") /\ req[r].act = SinCuerpo /\ req[r].id \in DOMAIN tareas)
        => req[r].resp = JsonTarea(Tarea(req[r].id, tareas[req[r].id], categorias))

\* C2: the UPDATE of a partial update with a non-empty valid body is accepted by the
\* store, sets exactly the supplied fields of the task to the supplied values, and
\* leaves its omitted fields, its id and every other task unchanged.
C2_ActualizaSoloLoSuministrado ==
    [][\A r \in Requests :
         (req[r].pc = "act_update" /\ req'[r] # req[r] /\ req[r].act # SinCuerpo)
         => /\ req'[r].pc = "act_obtener"
            /\ DOMAIN tareas' = DOMAIN tareas
            /\ \A i \in DOMAIN tareas :
                  tareas'[i] = IF i = req[r].id THEN FilaEsperada(tareas[i], req[r].act)
                               ELSE tareas[i]]_vars

\* C2 witness: an update supplying only completada=true has answered with the task
\* completed and the title, description and category it was created with.
C2_Testigo ==
    \E r \in Requests :
        /\ Terminado(r, "actualizar")
        /\ req[r].act = [SinCuerpo EXCEPT !.completada = Some(TRUE)]
        /\ req[r].resp = JsonTarea([id |-> req[r].id, titulo |-> <<"a">>,
                                    descripcion |-> <<"b">>, completada |-> TRUE,
                                    categoria |-> [id |-> 1, nombre |-> "Compras"]])
        /\ Cardinality(DOMAIN tareas) = 2

\* s is empty or whitespace-only
EnBlanco(s) == \A k \in 1..Len(s) : s[k] = " "

\* the elements of a sequence
Rango(f) == {f[k] : k \in 1..Len(f)}

\* the task a create request describes, once stored under id
TareaCreada(id, nueva) ==
    [id |-> id, titulo |-> nueva.titulo, descripcion |-> nueva.descripcion,
     completada |-> FALSE,
     categoria |-> [id |-> nueva.categoria_id, nombre |-> categorias[nueva.categoria_id]]]

\* C3: a create request with non-blank title and description and an existing category
\* goes through to the INSERT; the INSERT adds exactly one task to what list tasks
\* shows, under an id no stored task has, with completada=false and the given title,
\* description and category, and leaves the stored tasks unchanged; the response is
\* that task.
C3_CrearMuestraUnaTareaNueva ==
    [][\A r \in Requests :
         LET p == req[r]
             q == req'[r]
         IN  /\ (p.pc = "libre" /\ q.kind = "crear" /\ ~EnBlanco(q.nueva.titulo)
                    /\ ~EnBlanco(q.nueva.descripcion))
                 => q.pc = "crear_select_categoria"
             /\ (p.pc = "crear_select_categoria" /\ q # p
                    /\ p.nueva.categoria_id \in DOMAIN categorias)
                 => q.pc = "crear_insert"
             /\ (p.pc = "crear_insert" /\ q # p)
                 => LET antes == ListarTareas(tareas, categorias)
                        despues == ListarTareas(tareas', categorias')
                    IN  /\ q.pc = "crear_obtener"
                        /\ q.id \notin DOMAIN tareas
                        /\ Len(despues) = Len(antes) + 1
                        /\ Rango(antes) \subseteq Rango(despues)
                        /\ Rango(despues) \ Rango(antes) = {TareaCreada(q.id, p.nueva)}
                        /\ \A i \in DOMAIN tareas : tareas'[i] = tareas[i]
             /\ (p.pc = "crear_obtener" /\ q # p)
                 => q.resp = JsonTarea(TareaCreada(p.id, p.nueva))]_vars

\* C3 witness: a create has answered with a task under a new id 2 while task 1, already
\* completed, is stored.
C3_Testigo ==
    \E r \in Requests :
        /\ Terminado(r, "crear")
        /\ req[r].nueva.categoria_id \in DOMAIN categorias
        /\ req[r].resp = JsonTarea(TareaCreada(2, req[r].nueva))
        /\ DOMAIN tareas = {1, 2}
        /\ tareas[1].completada

\* C4: every stored task's categoria_id is the id of a stored category.
C4_CategoriaExistente ==
    \A i \in DOMAIN tareas : tareas[i].categoria_id \in DOMAIN categorias

\* C4 witness: a task has been moved to category 2 by an update, and another update,
\* asking for category 9999, has been refused.
C4_Testigo ==
    /\ \E i \in DOMAIN tareas : tareas[i].categoria_id = 2
    /\ \E r \in Requests :
          /\ Terminado(r, "actualizar")
          /\ req[r].act.categoria_id = Some(CategoriaDesconocida)
          /\ req[r].resp = ErrorResponse(ErrCategoriaNoExiste)

\* C5: every stored task's title and description are non-empty after trimming.
C5_TextosNoVacios ==
    \A i \in DOMAIN tareas :
        ~EnBlanco(tareas[i].titulo) /\ ~EnBlanco(tareas[i].descripcion)

\* C5 witness: an update of a stored task with a whitespace-only description has been
\* refused while another handler is between two statements.
C5_Testigo ==
    \E r, o \in Requests :
        /\ Terminado(r, "actualizar")
        /\ req[r].id \in DOMAIN tareas
        /\ req[r].act.descripcion = Some(<<" ">>)
        /\ req[r].resp = ErrorResponse(ErrDescripcionVacia)
        /\ req[o].pc \in {"crear_insert", "act_update"}

\* the update body names a category that is not stored
CategoriaInexistente(act) ==
    IsSome(act.categoria_id) /\ Unwrap(act.categoria_id) \notin DOMAIN categorias

\* the update body supplies a blank title or a blank description
TextoEnBlanco(act) ==
    \/ IsSome(act.titulo) /\ EnBlanco(Unwrap(act.titulo))
    \/ IsSome(act.descripcion) /\ EnBlanco(Unwrap(act.descripcion))

\* C6: a finished partial update reports the first failure in the order task id,
\* supplied category, supplied texts, the mutation: NotFoundError for an unknown id
\* whatever else is wrong, else ReferenceError for an unknown supplied category
\* whatever the texts are, else ValidationError for a blank supplied text, else none of
\* the three.
C6_OrdenDeComprobaciones ==
    \A r \in Requests :
        Terminado(r, "actualizar") =>
            IF req[r].id \notin DOMAIN tareas
            THEN req[r].resp = ErrorResponse(ErrTareaNoExiste)
            ELSE IF CategoriaInexistente(req[r].act)
            THEN req[r].resp = ErrorResponse(ErrCategoriaNoExiste)
            ELSE IF TextoEnBlanco(req[r].act)
            THEN req[r].resp.status = BAD_REQUEST /\ req[r].resp.error \in ValidationError
            ELSE req[r].resp.error \notin
                    NotFoundError \cup ReferenceError \cup ValidationError

\* C6 witness: an update of a stored task with an unknown category and a blank title
\* has been answered with ReferenceError.
C6_Testigo ==
    \E r \in Requests :
        /\ Terminado(r, "actualizar")
        /\ req[r].id \in DOMAIN tareas
        /\ req[r].act.categoria_id = Some(CategoriaDesconocida)
        /\ req[r].act.titulo = Some(<<" ">>)
        /\ req[r].resp.error \in ReferenceError

\* C7 as stated: a finished create whose categoria_id is not stored has answered
\* ReferenceError.
C7_CategoriaDesconocidaEsReferenceError ==
    \A r \in Requests :
        (Terminado(r, "crear") /\ req[r].nueva.categoria_id \notin DOMAIN categorias)
        => req[r].resp.error \in ReferenceError

\* C7 amended: a create with non-blank title and description whose categoria_id is not
\* stored leaves the task table unchanged at every step and ends with ReferenceError.
C7_CategoriaDesconocidaConTextosValidos ==
    [][\A r \in Requests :
         LET q == req'[r]
         IN  (q.kind = "crear" /\ q # req[r]
                /\ q.nueva.categoria_id \notin DOMAIN categorias
                /\ ~EnBlanco(q.nueva.titulo) /\ ~EnBlanco(q.nueva.descripcion))
             => /\ tareas' = tareas
                /\ q.pc \in {"crear_select_categoria", "fin"}
                /\ q.pc = "fin" => q.resp = ErrorResponse(ErrCategoriaNoExiste)]_vars

\* C7 witness: a create with valid texts and category 9999 has been refused with
\* ReferenceError while a task is stored.
C7_Testigo ==
    \E r \in Requests :
        /\ Terminado(r, "crear")
        /\ req[r].nueva = [titulo |-> <<"a">>, descripcion |-> <<"b">>,
                           categoria_id |-> CategoriaDesconocida]
        /\ req[r].resp = ErrorResponse(ErrCategoriaNoExiste)
        /\ DOMAIN tareas # {}

\* C8: a create whose title or description is empty or whitespace-only is answered at
\* once with ValidationError, whatever its category id, and leaves the task table
\* unchanged.
C8_CrearEnBlancoEsValidationError ==
    [][\A r \in Requests :
         LET q == req'[r]
         IN  (q.kind = "crear" /\ q # req[r]
                /\ (EnBlanco(q.nueva.titulo) \/ EnBlanco(q.nueva.descripcion)))
             => /\ tareas' = tareas
                /\ q.pc = "fin"
                /\ q.resp.status = BAD_REQUEST
                /\ q.resp.error \in ValidationError]_vars

\* C8 witness: a create with a valid title, a whitespace-only description and an
\* existing category has been refused with ValidationError.
C8_Testigo ==
    \E r \in Requests :
        /\ Terminado(r, "crear")
        /\ req[r].nueva = [titulo |-> <<"a">>, descripcion |-> <<" ">>, categoria_id |-> 1]
        /\ req[r].resp = ErrorResponse(ErrDescripcionVacia)

\* C9: the DELETE of a task id that is not stored is answered with the NotFoundError
\* envelope, not 204, and leaves the task table unchanged.
C9_BorrarDesconocidaEsNotFound ==
    [][\A r \in Requests :
         (req[r].pc = "borrar_delete" /\ req'[r] # req[r] /\ req[r].id \notin DOMAIN tareas)
         => /\ req'[r].pc = "fin"
            /\ req'[r].resp.status = BAD_REQUEST
            /\ req'[r].resp.error \in NotFoundError
            /\ tareas' = tareas]_vars

\* C9 witness: a delete of id 2 has been refused with NotFoundError while task 1 is
\* stored.
C9_Testigo ==
    \E r \in Requests :
        /\ Terminado(r, "borrar")
        /\ req[r].id = 2
        /\ req[r].resp = ErrorResponse(ErrTareaNoExiste)
        /\ DOMAIN tareas = {1}

\* C10: the DELETE of a stored task id is answered 204 and removes that task and no
\* other, so list tasks no longer shows it; an id that is not stored becomes stored
\* only by the INSERT of a create; and the DELETE of an id that is not stored is
\* answered NotFoundError and changes nothing.
C10_BorrarDosVeces ==
    [][/\ \A r \in Requests :
            (req[r].pc = "borrar_delete" /\ req'[r] # req[r]) =>
                IF req[r].id \in DOMAIN tareas
                THEN /\ req'[r].resp = SinContenido
                     /\ DOMAIN tareas' = DOMAIN tareas \ {req[r].id}
                     /\ \A i \in DOMAIN tareas' : tareas'[i] = tareas[i]
                     /\ \A t \in Rango(ListarTareas(tareas', categorias')) :
                           t.id # req[r].id
                ELSE /\ req'[r].resp = ErrorResponse(ErrTareaNoExiste)
                     /\ tareas' = tareas
       /\ \A i \in DOMAIN tareas' \ DOMAIN tareas :
            \E r \in Requests :
                req[r].pc = "crear_insert" /\ req'[r].pc = "crear_obtener" /\ req'[r].id = i
      ]_vars

\* C10 witness: with ids never reused, a delete of an id the store has handed out and
\* no longer holds (the task was deleted before) has been refused with NotFoundError.
C10_Testigo ==
    \E r \in Requests :
        /\ autoincrement
        /\ Terminado(r, "borrar")
        /\ req[r].id <= seq
        /\ req[r].id \notin DOMAIN tareas
        /\ req[r].resp = ErrorResponse(ErrTareaNoExiste)
        /\ DOMAIN tareas # {}

\* the ids of a list of tasks, in order
Ids(lista) == [k \in 1..Len(lista) |-> lista[k].id]

\* C11: list tasks answers with every stored task exactly once, as stored, all
\* incomplete tasks before all completed ones and by descending id within each group;
\* with tasks 1, 2, 3 of which only 2 is completed the order is 3, 1, 2; and the SELECT
\* leaves the store unchanged.
C11_ListarOrdenado ==
    [][\A r \in Requests :
         (req[r].pc = "listar_select" /\ req'[r] # req[r]) =>
            LET lista == req'[r].resp.body
            IN  /\ req'[r].pc = "fin"
                /\ req'[r].resp.status = OK
                /\ tareas' = tareas /\ categorias' = categorias
                /\ Len(lista) = Cardinality(DOMAIN tareas)
                /\ Rango(Ids(lista)) = DOMAIN tareas
                /\ \A k \in 1..Len(lista) :
                      lista[k] = Tarea(lista[k].id, tareas[lista[k].id], categorias)
                /\ \A j, k \in 1..Len(lista) :
                      j < k => /\ lista[j].completada => lista[k].completada
                               /\ lista[j].completada = lista[k].completada
                                    => lista[j].id > lista[k].id
                /\ (/\ DOMAIN tareas = {1, 2, 3}
                    /\ \A i \in {1, 2, 3} : tareas[i].completada = (i = 2))
                   => Ids(lista) = <<3, 1, 2>>]_vars

\* C11 witness: with tasks 1, 2, 3 stored and only 2 completed, list tasks has answered
\* in the order 3, 1, 2.
C11_Testigo ==
    \E r \in Requests :
        /\ Terminado(r, "listar")
        /\ DOMAIN tareas = {1, 2, 3}
        /\ \A i \in {1, 2, 3} : tareas[i].completada = (i = 2)
        /\ Ids(req[r].resp.body) = <<3, 1, 2>>

\* slot r runs an update while another slot runs an update of the same task
OtraActualizacion(r) ==
    \E o \in Requests \ {r} :
        /\ req[o].kind = "actualizar"
        /\ req[o].id = req[r].id
        /\ req[o].pc \in {"act_select_tarea", "act_select_categoria", "act_update",
                          "act_obtener"}

\* C12: when two updates of one stored task run at the same time, the UPDATE of each
\* succeeds at the store and writes its supplied fields over the row the other left:
\* the last UPDATE supplying a field decides it, a field supplied by neither is kept.
C12_UltimaEscrituraGana ==
    [][\A r \in Requests :
         (/\ req[r].pc = "act_update"
          /\ req'[r] # req[r]
          /\ req[r].id \in DOMAIN tareas
          /\ OtraActualizacion(r))
         => /\ req'[r].pc = "act_obtener"
            /\ req[r].id \in DOMAIN tareas'
            /\ tareas'[req[r].id] = FilaEsperada(tareas[req[r].id], req[r].act)]_vars

\* slot r executes the statement it is at, of the handler of the given position
Ejecuta(r, pc) == req[r].pc = pc /\ req'[r] # req[r]

\* C13: a task comes into existence only through the INSERT of a create, and then has
\* completada = false; while it exists its completada flag changes only through the
\* UPDATE of an update of that task that supplies completada, and no update moves a row
\* to another id; it stops existing only through the DELETE of a delete of that task.
C13_CicloDeVida ==
    [][/\ \A i \in (DOMAIN tareas') \ DOMAIN tareas :
             /\ \E r \in Requests : req[r].kind = "crear" /\ Ejecuta(r, "crear_insert")
             /\ tareas'[i].completada = FALSE
       /\ \A i \in DOMAIN tareas \cap DOMAIN tareas' :
             tareas'[i].completada # tareas[i].completada
             => \E r \in Requests :
                   /\ req[r].kind = "actualizar" /\ Ejecuta(r, "act_update")
                   /\ req[r].id = i
                   /\ req[r].act.completada = {tareas'[i].completada}
       /\ \A i \in DOMAIN tareas \ DOMAIN tareas' :
             \E r \in Requests :
                 req[r].kind = "borrar" /\ Ejecuta(r, "borrar_delete") /\ req[r].id = i
       /\ \A r \in Requests :
             req[r].kind = "actualizar" /\ req'[r].kind = "actualizar" /\ req'[r] # req[r]
             => DOMAIN tareas' = DOMAIN tareas /\ req'[r].id = req[r].id]_vars

\* C13 witness: one task has been created, completed by an update that answered with it,
\* and deleted by a delete that answered 204.
C13_Testigo ==
    \E r, o \in Requests :
        /\ Terminado(r, "actualizar")
        /\ req[r].act.completada = {TRUE}
        /\ req[r].resp.status = OK
        /\ req[r].resp.body[1].id = req[r].id
        /\ req[r].resp.body[1].completada
        /\ Terminado(o, "borrar")
        /\ req[o].id = req[r].id
        /\ req[o].resp = SinContenido
        /\ req[r].id \notin DOMAIN tareas

\* the messages of the four kinds of failure
Fallos == ValidationError \cup ReferenceError \cup NotFoundError \cup PersistenceError

\* C14: every failure of every handler, of whichever kind, is answered with the error
\* envelope (a message and nothing else) and status 400, and 400 is answered for nothing
\* else; the failing handler returns at once, without executing any statement again.
C14_TodoFalloEs400 ==
    [][\A r \in Requests :
         /\ (req[r].pc # "fin" /\ req'[r].pc = "fin")
            => \/ /\ req'[r].resp.error = ""
                  /\ req'[r].resp.status \in {OK, NO_CONTENT}
               \/ /\ req'[r].resp.error \in Fallos
                  /\ req'[r].resp.status = BAD_REQUEST
                  /\ req'[r].resp.body = <<>>
         /\ (req'[r].resp.error # "" /\ req'[r] # req[r])
            => req[r].pc # "fin" /\ req'[r].pc = "fin"
         /\ (req[r].pc = "fin" /\ req'[r] # req[r])
            => req'[r] = Libre /\ UNCHANGED <<categorias, tareas, seq>>]_vars

\* C14 witness: an update has been answered 400 for a store error while a delete has
\* been answered 400 for an unknown task.
C14_Testigo ==
    \E r, o \in Requests :
        /\ Terminado(r, "actualizar")
        /\ req[r].resp.error \in PersistenceError
        /\ req[r].resp.status = BAD_REQUEST
        /\ Terminado(o, "borrar")
        /\ req[o].resp.error \in NotFoundError
        /\ req[o].resp.status = BAD_REQUEST

\* C15: no request handler, in any sequence or interleaving of list, create, update and
\* delete requests, adds, removes or changes a category row: the category table stays
\* equal to its value after bootstrap.
C15_CategoriasFijas == categorias = CategoriasIniciales

\* C15 witness: a create naming a category that does not exist has been refused and a
\* listing of the categories has answered the five default rows, while a task is stored.
C15_Testigo ==
    \E r, o \in Requests :
        /\ Terminado(r, "crear")
        /\ req[r].resp.error \in ReferenceError
        /\ Terminado(o, "categorias")
        /\ Rango(req[o].resp.body) = {[id |-> i, nombre |-> CategoriasIniciales[i]] :
                                         i \in DOMAIN CategoriasIniciales}
        /\ tareas # <<>>

\* the ids of the rows of the category table holding a name
IdsDeNombre(cs, nombre) == {i \in DOMAIN cs : cs[i] = nombre}

\* C16: init_categorias, run once or again, from an empty or an already seeded table,
\* never changes or removes a category row that is present, and when it returns the
\* table holds each of the five default names exactly once and no other name.
C16_InitIdempotente ==
    [][/\ \A i \in DOMAIN categorias :
             i \in DOMAIN categorias' /\ categorias'[i] = categorias[i]
       /\ \A r \in Requests :
             (req[r].kind = "init" /\ req[r].pc # "fin" /\ req'[r].pc = "fin")
             => /\ \A n \in {"Compras", "Trabajo", "Estudio", "Personal", "Otros"} :
                      Cardinality(IdsDeNombre(categorias', n)) = 1
                /\ Cardinality(DOMAIN categorias') = 5]_vars

\* C16 witness: init_categorias has returned and the table holds the five default names
\* under the ids 1 to 5, as after the first start on an empty table and after every
\* later start.
C16_Testigo ==
    \E r \in Requests :
        /\ Terminado(r, "init")
        /\ categorias = CategoriasIniciales

\* C17: whatever the number of handlers running, at most 5 connections are in use; a
\* handler holds a connection only while one statement of its request executes, so
\* after every statement, and on every return, successful or not, it holds none; when
\* no request is in flight no connection is in use.
C17_ConexionesAcotadas ==
    [][/\ Cardinality(enUso') <= 5
       /\ \A r \in DOMAIN req :
             /\ r \in enUso' => req'[r].pc \notin {"libre", "fin"}
             /\ (r \in enUso /\ req'[r] # req[r]) => r \notin enUso'
             /\ (r \in enUso' /\ r \notin enUso) => req'[r] = req[r]
       /\ (\A r \in DOMAIN req : req'[r].pc = "libre") => enUso' = {}]_vars

\* C17 witness: five handlers are executing a statement, a sixth waits for a connection,
\* and the one of slot 1 is on the error path of an update whose task has been deleted.
C17_Testigo ==
    /\ Cardinality(enUso) = 5
    /\ \E r \in DOMAIN req : r \notin enUso /\ req[r].pc = "borrar_delete"
    /\ 1 \in enUso
    /\ req[1].pc = "act_obtener"
    /\ req[1].id \notin DOMAIN tareas

\* the columns an update can set, in the order of the statement
Columnas == <<"titulo = ", "descripcion = ", "categoria_id = ", "completada = ">>

\* the field of an update body that goes with the k-th column
CampoDeColumna(act, k) ==
    CASE k = 1 -> act.titulo
      [] k = 2 -> act.descripcion
      [] k = 3 -> act.categoria_id
      [] k = 4 -> act.completada

\* the columns an update body supplies, in the order of the statement
Suministradas(act) == SelectSeq(<<1, 2, 3, 4>>, LAMBDA k : CampoDeColumna(act, k) # {})

\* C18: for every subset of supplied fields, the SET list handed to the store has one
\* clause per supplied column, in the order titulo, descripcion, categoria_id,
\* completada, each with its value bound as a parameter, and the separator ", " exactly
\* between consecutive clauses (n-1 separators for n clauses, none first or last); for
\* every non-empty subset the list is well formed.
C18_ListaSetBienFormada ==
    \A r \in Requests :
        req[r].pc = "act_update"
        => LET act == req[r].act
               tokens == ConstruirSet(act)
               cols == Suministradas(act)
               n == Len(cols)
           IN  /\ Len(tokens) = IF n = 0 THEN 0 ELSE 2 * n - 1
               /\ \A k \in 1..n :
                     /\ tokens[2 * k - 1].text = Columnas[cols[k]]
                     /\ tokens[2 * k - 1].bind = CampoDeColumna(act, cols[k])
               /\ \A k \in 1..(n - 1) :
                     tokens[2 * k].text = ", " /\ tokens[2 * k].bind = {}
               /\ n > 0 => SetValido(tokens)

\* C18 witness: the UPDATE of a body supplying all four fields has been accepted by the
\* store (four clauses, three separators).
C18_Testigo ==
    \E r \in Requests :
        /\ req[r].pc = "act_obtener"
        /\ Len(Suministradas(req[r].act)) = 4
        /\ Len(ConstruirSet(req[r].act)) = 7

\* the positions of an update before its UPDATE statement
AntesDelUpdate == {"act_select_tarea", "act_select_categoria"}

\* C19: a partial update that ends with NotFoundError, ReferenceError or ValidationError
\* applies none of its fields: it returns from a position before its UPDATE, none of the
\* statements it has executed by then has changed the task table, and it never goes
\* back before the UPDATE once that has been issued.
C19_ActualizacionFallidaNoEscribe ==
    [][\A r \in Requests :
         (req[r].kind = "actualizar" /\ req'[r] # req[r])
         => /\ req[r].pc \in AntesDelUpdate => tareas' = tareas
            /\ (/\ req'[r].pc = "fin"
                /\ req'[r].resp.error \in NotFoundError \cup ReferenceError \cup ValidationError)
               => req[r].pc \in AntesDelUpdate
            /\ req[r].pc \notin AntesDelUpdate => req'[r].pc \notin AntesDelUpdate]_vars

\* C19 witness: an update with a valid titulo and a blank descripcion has been refused
\* and the task still has the title it was created with; likewise the refused update has
\* left completada false.
C19_Testigo ==
    \E r \in Requests :
        /\ Terminado(r, "actualizar")
        /\ req[r].act.titulo = {<<" ", "c">>}
        /\ req[r].act.completada = {TRUE}
        /\ req[r].act.descripcion # {}
        /\ EnBlanco(Unwrap(req[r].act.descripcion))
        /\ req[r].resp.error \in ValidationError
        /\ req[r].id \in DOMAIN tareas
        /\ tareas[req[r].id].titulo = <<"a">>
        /\ ~tareas[req[r].id].completada

DescribeLoSuministrado(r) ==
    LET act == req[r].act
        t == req[r].resp.body[1]
    IN  /\ t.id = req[r].id
        /\ act.titulo # {} => {t.titulo} = act.titulo
        /\ act.descripcion # {} => {t.descripcion} = act.descripcion
        /\ act.categoria_id # {} => {t.categoria.id} = act.categoria_id
        /\ act.completada # {} => {t.completada} = act.completada

\* C21: a successful create answers the assigned id with the given title, description
\* and category and completada = false, and a successful update answers the task with
\* every supplied field equal to the supplied value, also when other handlers on the
\* same task run between the handler's write and its final fetch.
C21_RespuestaDescribeLoEscrito ==
    \A r \in Requests :
        /\ (Terminado(r, "crear") /\ req[r].resp.status = OK)
           => req[r].resp.body = <<TareaCreada(req[r].id, req[r].nueva)>>
        /\ (Terminado(r, "actualizar") /\ req[r].resp.status = OK)
           => DescribeLoSuministrado(r)

\* the id and completada flag of every task of the list held by the frontend
VistaLocal == {<<frontend.tareas[k].id, frontend.tareas[k].completada>> :
                  k \in 1..Len(frontend.tareas)}

\* the id and completada flag of every task stored by the backend
VistaBackend == {<<i, tareas[i].completada>> : i \in DOMAIN tareas}

\* C22: once the responses of all add, delete and toggle actions issued in the frontend
\* have arrived, and all succeeded, the list held by the frontend has exactly the tasks
\* the backend stores, with the same completada flags, also when an action was issued
\* before the response of an earlier one had arrived.
C22_ListaLocalIgualAlBackend ==
    ((\A r \in Requests : req[r].pc = "libre") /\ ~frontend.fallo)
    => /\ VistaLocal = VistaBackend
       /\ Len(frontend.tareas) = Cardinality(DOMAIN tareas)

\* C23: under fair scheduling and a store that answers every statement, every request
\* in flight, whatever the number of requests running beside it, ends with a response,
\* and a handler that holds a connection waits for nothing but the store's answer.
C23_TodoHandlerTermina ==
    /\ \A r \in 1..NumReqPool : (req[r].pc \notin {"libre", "fin"}) ~> (req[r].pc = "fin")
    /\ [](\A r \in enUso : ENABLED Sentencia(r))

\* slot 1, between the statements of an update, waits while the five deletes hold the
\* five connections
C23_Testigo ==
    /\ Cardinality(enUso) = 5
    /\ 1 \notin enUso
    /\ req[1].pc = "act_update"

====
